---- MODULE Spec2Model ----
(***************************************************************************)
(* Model of modules/data/hmm.py: HMMDatabase.save, HMMDatabase.HMM.__save__ *)
(* and HMMDatabase.HMM.from_file.                                          *)
(*                                                                         *)
(* A Python string is a tuple of one-character strings, None is the tuple  *)
(* <<"None">>, which is no string.  The gateway (class Database) keeps     *)
(* three tables; a row's id is its position in the table, as an            *)
(* auto-increment key gives it, and a select returns the ids of the        *)
(* matching rows, fetchall()[0] being the row of the smallest id.  Every   *)
(* gateway call of save is logged by name in ops, in the order made.       *)
(***************************************************************************)
EXTENDS Integers, Sequences, FiniteSets, TLC

VARIABLES database, prev, last, nsaves, hmm_file, parsed

vars == <<database, prev, last, nsaves, hmm_file, parsed>>

None == <<"None">>

(***************************************************************************)
(* Bounds and input sets.                                                  *)
(***************************************************************************)
MaxSaves == 2
MaxBio == 1
MaxKeys == 2
MaxSubs == 1
MaxLines == 7

\* Names, model lengths and checksums of the submitted groups.  A parent
\* accession key is p or q; a biosynthetic profile carries the accession p,
\* a sub-profile the accession q or none.
Names == {<<"a">>, <<"b">>}
Lens == {1, 2}
Accs == {<<"p">>, <<"q">>}
BiosynAccs == {<<"p">>}
SubAccs == {<<"q">>, None}
Md5Biosyn == {<<"1">>, <<"2">>}
Md5Sub == {<<"1">>}

SeqsUpTo(S, n) == UNION {[1..k -> S] : k \in 0..n}

First(S) == CHOOSE i \in S : \A j \in S : i <= j

(***************************************************************************)
(* The gateway: select and insert on the tables hmm_db, hmm and subpfam.   *)
(***************************************************************************)
EmptyDatabase == [hmm_db |-> <<>>, hmm |-> <<>>, subpfam |-> <<>>]

select_hmm_db(db, md5_biosyn_pfam, md5_sub_pfam) ==
  {i \in 1..Len(db.hmm_db) :
     /\ db.hmm_db[i].md5_biosyn_pfam = md5_biosyn_pfam
     /\ db.hmm_db[i].md5_sub_pfam = md5_sub_pfam}

select_hmm_by_name(db, name, db_id) ==
  {i \in 1..Len(db.hmm) : db.hmm[i].name = name /\ db.hmm[i].db_id = db_id}

select_hmm_by_accession(db, accession, db_id) ==
  {i \in 1..Len(db.hmm) :
     db.hmm[i].accession = accession /\ db.hmm[i].db_id = db_id}

select_hmm_subpfam(db, parent_id, name, db_id) ==
  {i \in 1..Len(db.hmm) :
     /\ \E k \in 1..Len(db.subpfam) :
           db.subpfam[k].hmm_id = i /\ db.subpfam[k].parent_hmm_id = parent_id
     /\ db.hmm[i].name = name
     /\ db.hmm[i].db_id = db_id}

insert(db, table, row) ==
  [database |-> [db EXCEPT ![table] = Append(@, row)],
   id |-> Len(db[table]) + 1]

(***************************************************************************)
(* HMMDatabase.HMM                                                         *)
(***************************************************************************)
\* HMM.__init__ reading the name with a default, as it reads the accession.
HMM__init__default_name(properties) ==
  IF "model_length" \notin DOMAIN properties
  THEN [status |-> "KeyError"]
  ELSE [status |-> "ok",
        hmm |-> [id |-> -1, parent_id |-> -1, db_id |-> -1,
                 accession |-> IF "accession" \in DOMAIN properties
                               THEN properties["accession"] ELSE None,
                 name |-> IF "name" \in DOMAIN properties
                          THEN properties["name"] ELSE None,
                 model_length |-> properties["model_length"]]]

HMM__init__(properties) ==
  IF "name" \notin DOMAIN properties \/ "model_length" \notin DOMAIN properties
  THEN [status |-> "KeyError"]
  ELSE [status |-> "ok",
        hmm |-> [id |-> -1, parent_id |-> -1, db_id |-> -1,
                 accession |-> IF "accession" \in DOMAIN properties
                               THEN properties["accession"] ELSE None,
                 name |-> properties["name"],
                 model_length |-> properties["model_length"]]]

\* __save__ adopting the id of the stored row without comparing model_length.
HMM__save__no_check(self, db) ==
  LET existing == select_hmm_by_name(db, self.name, self.db_id)
      ins == insert(db, "hmm",
                    [db_id |-> self.db_id, name |-> self.name,
                     accession |-> self.accession,
                     model_length |-> self.model_length])
      rel == insert(ins.database, "subpfam",
                    [hmm_id |-> ins.id, parent_hmm_id |-> self.parent_id])
  IN  IF existing # {}
      THEN [database |-> db, self |-> [self EXCEPT !.id = First(existing)],
            status |-> "ok", ops |-> <<"select hmm">>]
      ELSE [database |-> IF self.parent_id > -1 THEN rel.database
                         ELSE ins.database,
            self |-> [self EXCEPT !.id = ins.id], status |-> "ok",
            ops |-> IF self.parent_id > -1
                    THEN <<"select hmm", "insert hmm", "insert subpfam">>
                    ELSE <<"select hmm", "insert hmm">>]

\* __save__ inserting without the lookup by (name, db_id).
HMM__save__always_insert(self, db) ==
  LET ins == insert(db, "hmm",
                    [db_id |-> self.db_id, name |-> self.name,
                     accession |-> self.accession,
                     model_length |-> self.model_length])
      rel == insert(ins.database, "subpfam",
                    [hmm_id |-> ins.id, parent_hmm_id |-> self.parent_id])
  IN  [database |-> IF self.parent_id > -1 THEN rel.database
                    ELSE ins.database,
       self |-> [self EXCEPT !.id = ins.id], status |-> "ok",
       ops |-> IF self.parent_id > -1 THEN <<"insert hmm", "insert subpfam">>
               ELSE <<"insert hmm">>]

\* __save__ looking the profile up by name in every group.
HMM__save__any_group(self, db) ==
  LET existing == {i \in 1..Len(db.hmm) : db.hmm[i].name = self.name}
      row == [db_id |-> self.db_id, name |-> self.name,
              accession |-> self.accession,
              model_length |-> self.model_length]
      ins == insert(db, "hmm", row)
      rel == insert(ins.database, "subpfam",
                    [hmm_id |-> ins.id, parent_hmm_id |-> self.parent_id])
  IN  IF existing # {}
      THEN IF self.model_length # db.hmm[First(existing)].model_length
           THEN [database |-> db, self |-> self, status |-> "Exception",
                 ops |-> <<"select hmm">>]
           ELSE [database |-> db,
                 self |-> [self EXCEPT !.id = First(existing)],
                 status |-> "ok", ops |-> <<"select hmm">>]
      ELSE [database |-> IF self.parent_id > -1 THEN rel.database
                         ELSE ins.database,
            self |-> [self EXCEPT !.id = ins.id], status |-> "ok",
            ops |-> IF self.parent_id > -1
                    THEN <<"select hmm", "insert hmm", "insert subpfam">>
                    ELSE <<"select hmm", "insert hmm">>]

\* __save__ writing its model_length over that of the stored row.
HMM__save__overwrite(self, db) ==
  LET existing == select_hmm_by_name(db, self.name, self.db_id)
      row == [db_id |-> self.db_id, name |-> self.name,
              accession |-> self.accession,
              model_length |-> self.model_length]
      ins == insert(db, "hmm", row)
      rel == insert(ins.database, "subpfam",
                    [hmm_id |-> ins.id, parent_hmm_id |-> self.parent_id])
  IN  IF existing # {}
      THEN [database |-> [db EXCEPT !.hmm[First(existing)].model_length
                                      = self.model_length],
            self |-> [self EXCEPT !.id = First(existing)],
            status |-> "ok", ops |-> <<"select hmm", "update hmm">>]
      ELSE [database |-> IF self.parent_id > -1 THEN rel.database
                         ELSE ins.database,
            self |-> [self EXCEPT !.id = ins.id], status |-> "ok",
            ops |-> IF self.parent_id > -1
                    THEN <<"select hmm", "insert hmm", "insert subpfam">>
                    ELSE <<"select hmm", "insert hmm">>]

HMM__save__(self, db) ==
  LET existing == select_hmm_by_name(db, self.name, self.db_id)
      row == [db_id |-> self.db_id, name |-> self.name,
              accession |-> self.accession,
              model_length |-> self.model_length]
      ins == insert(db, "hmm", row)
      rel == insert(ins.database, "subpfam",
                    [hmm_id |-> ins.id, parent_hmm_id |-> self.parent_id])
  IN  IF ~(self.db_id > -1)
      THEN [database |-> db, self |-> self, status |-> "AssertionError",
            ops |-> <<>>]
      ELSE IF existing # {}
      THEN IF Cardinality(existing) # 1
           THEN [database |-> db, self |-> self, status |-> "AssertionError",
                 ops |-> <<"select hmm">>]
           ELSE IF self.model_length # db.hmm[First(existing)].model_length
           THEN [database |-> db, self |-> self, status |-> "Exception",
                 ops |-> <<"select hmm">>]
           ELSE [database |-> db,
                 self |-> [self EXCEPT !.id = First(existing)],
                 status |-> "ok", ops |-> <<"select hmm">>]
      ELSE [database |-> IF self.parent_id > -1 THEN rel.database
                         ELSE ins.database,
            self |-> [self EXCEPT !.id = ins.id],
            status |-> "ok",
            ops |-> IF self.parent_id > -1
                    THEN <<"select hmm", "insert hmm", "insert subpfam">>
                    ELSE <<"select hmm", "insert hmm">>]

(***************************************************************************)
(* HMMDatabase                                                             *)
(***************************************************************************)
HMMDatabase__init__(properties) ==
  [id |-> -1,
   md5_biosyn_pfam |-> properties.md5_biosyn_pfam,
   md5_sub_pfam |-> properties.md5_sub_pfam,
   biosyn_pfams |-> properties.biosyn_pfams,
   sub_pfams |-> properties.sub_pfams]

\* The record of one __save__ call made by save: at is <<0, i>> for
\* biosyn_pfams[i] and <<k, j>> for the j-th pfam under the k-th key.
Call(at, db, pfam, r) ==
  [at |-> at, before |-> db, pfam |-> pfam, after |-> r.database,
   self |-> r.self, status |-> r.status]

\* save, lines 82-84: the loop over biosyn_pfams from position i on.
RECURSIVE save_insert_biosyn(_, _)
save_insert_biosyn(st, i) ==
  IF st.status # "ok" \/ i > Len(st.self.biosyn_pfams) THEN st
  ELSE LET biosyn_pfam == [st.self.biosyn_pfams[i] EXCEPT !.db_id = st.self.id]
           r == HMM__save__(biosyn_pfam, st.database)
       IN  save_insert_biosyn(
             [database |-> r.database,
              self |-> [st.self EXCEPT !.biosyn_pfams[i] = r.self],
              status |-> r.status,
              calls |-> Append(st.calls,
                               Call(<<0, i>>, st.database, biosyn_pfam, r)),
              ops |-> st.ops \o r.ops],
             i + 1)

\* save, lines 93-96: the loop over sub_pfams[parent_acc] from position j on.
RECURSIVE save_insert_sub(_, _, _, _)
save_insert_sub(st, k, parent_id, j) ==
  IF st.status # "ok" \/ j > Len(st.self.sub_pfams[k].pfams) THEN st
  ELSE LET sub_pfam == [st.self.sub_pfams[k].pfams[j] EXCEPT
                          !.db_id = st.self.id, !.parent_id = parent_id]
           r == HMM__save__(sub_pfam, st.database)
       IN  save_insert_sub(
             [database |-> r.database,
              self |-> [st.self EXCEPT !.sub_pfams[k].pfams[j] = r.self],
              status |-> r.status,
              calls |-> Append(st.calls,
                               Call(<<k, j>>, st.database, sub_pfam, r)),
              ops |-> st.ops \o r.ops],
             k, parent_id, j + 1)

\* save, lines 86-96: the loop over the keys of sub_pfams from position k on.
RECURSIVE save_insert_subs(_, _)
save_insert_subs(st, k) ==
  IF st.status # "ok" \/ k > Len(st.self.sub_pfams) THEN st
  ELSE LET rows == select_hmm_by_accession(
                     st.database, st.self.sub_pfams[k].parent_acc, st.self.id)
           st1 == [st EXCEPT !.ops = Append(@, "select hmm")]
       IN  IF rows = {} THEN [st1 EXCEPT !.status = "IndexError"]
           ELSE save_insert_subs(save_insert_sub(st1, k, First(rows), 1),
                                 k + 1)

\* The insert branch inserting the group row after the rows of its members.
save_insert_group_last(self, db) ==
  LET r == save_insert_subs(
             save_insert_biosyn(
               [database |-> db,
                self |-> [self EXCEPT !.id = Len(db.hmm_db) + 1],
                status |-> "ok", calls |-> <<>>,
                ops |-> <<"select hmm_db">>], 1), 1)
      ins == insert(r.database, "hmm_db",
                    [md5_biosyn_pfam |-> self.md5_biosyn_pfam,
                     md5_sub_pfam |-> self.md5_sub_pfam])
  IN  IF r.status # "ok" THEN r
      ELSE [r EXCEPT !.database = ins.database,
                     !.ops = Append(@, "insert hmm_db")]

\* The insert branch undoing its inserts when a member fails.
save_insert_rollback(self, db) ==
  LET ins == insert(db, "hmm_db",
                    [md5_biosyn_pfam |-> self.md5_biosyn_pfam,
                     md5_sub_pfam |-> self.md5_sub_pfam])
      r == save_insert_subs(
             save_insert_biosyn(
               [database |-> ins.database,
                self |-> [self EXCEPT !.id = ins.id],
                status |-> "ok", calls |-> <<>>,
                ops |-> <<"select hmm_db", "insert hmm_db">>], 1), 1)
  IN  IF r.status = "ok" THEN r
      ELSE [r EXCEPT !.database = db, !.ops = Append(@, "rollback")]

\* save, lines 72-96: no row of hmm_db matches the checksum pair.
save_insert(self, db) ==
  LET ins == insert(db, "hmm_db",
                    [md5_biosyn_pfam |-> self.md5_biosyn_pfam,
                     md5_sub_pfam |-> self.md5_sub_pfam])
  IN  save_insert_subs(
        save_insert_biosyn(
          [database |-> ins.database, self |-> [self EXCEPT !.id = ins.id],
           status |-> "ok", calls |-> <<>>,
           ops |-> <<"select hmm_db", "insert hmm_db">>], 1), 1)

\* The found branch comparing model_length with the stored row, as the
\* disabled check of line 44 would.
RECURSIVE save_found_biosyn_checked(_, _)
save_found_biosyn_checked(st, i) ==
  IF st.status # "ok" \/ i > Len(st.self.biosyn_pfams) THEN st
  ELSE LET rows == select_hmm_by_name(
                     st.database, st.self.biosyn_pfams[i].name, st.self.id)
           st1 == [st EXCEPT !.ops = Append(@, "select hmm")]
       IN  IF rows = {} THEN [st1 EXCEPT !.status = "IndexError"]
           ELSE IF st.database.hmm[First(rows)].model_length
                     # st.self.biosyn_pfams[i].model_length
           THEN [st1 EXCEPT !.status = "Exception"]
           ELSE save_found_biosyn_checked(
                  [st1 EXCEPT !.self.biosyn_pfams[i].id = First(rows)], i + 1)

\* save, lines 48-54.
RECURSIVE save_found_biosyn(_, _)
save_found_biosyn(st, i) ==
  IF st.status # "ok" \/ i > Len(st.self.biosyn_pfams) THEN st
  ELSE LET rows == select_hmm_by_name(
                     st.database, st.self.biosyn_pfams[i].name, st.self.id)
           st1 == [st EXCEPT !.ops = Append(@, "select hmm")]
       IN  IF rows = {} THEN [st1 EXCEPT !.status = "IndexError"]
           ELSE save_found_biosyn(
                  [st1 EXCEPT !.self.biosyn_pfams[i].id = First(rows)], i + 1)

\* The found branch passing over a sub-profile it cannot resolve.
RECURSIVE save_found_sub_skip(_, _, _, _)
save_found_sub_skip(st, k, parent_id, j) ==
  IF st.status # "ok" \/ j > Len(st.self.sub_pfams[k].pfams) THEN st
  ELSE LET st1 == [st EXCEPT
                     !.self.sub_pfams[k].pfams[j].parent_id = parent_id,
                     !.ops = Append(@, "select hmm,subpfam")]
           rows == select_hmm_subpfam(
                     st.database, parent_id,
                     st.self.sub_pfams[k].pfams[j].name, st.self.id)
       IN  IF rows = {} THEN save_found_sub_skip(st1, k, parent_id, j + 1)
           ELSE save_found_sub_skip(
                  [st1 EXCEPT !.self.sub_pfams[k].pfams[j].id = First(rows)],
                  k, parent_id, j + 1)

\* save, lines 62-70.
RECURSIVE save_found_sub(_, _, _, _)
save_found_sub(st, k, parent_id, j) ==
  IF st.status # "ok" \/ j > Len(st.self.sub_pfams[k].pfams) THEN st
  ELSE LET st1 == [st EXCEPT
                     !.self.sub_pfams[k].pfams[j].parent_id = parent_id,
                     !.ops = Append(@, "select hmm,subpfam")]
           rows == select_hmm_subpfam(
                     st.database, parent_id,
                     st.self.sub_pfams[k].pfams[j].name, st.self.id)
       IN  IF rows = {} THEN [st1 EXCEPT !.status = "IndexError"]
           ELSE save_found_sub(
                  [st1 EXCEPT !.self.sub_pfams[k].pfams[j].id = First(rows)],
                  k, parent_id, j + 1)

\* save, lines 55-70.
RECURSIVE save_found_subs(_, _)
save_found_subs(st, k) ==
  IF st.status # "ok" \/ k > Len(st.self.sub_pfams) THEN st
  ELSE LET rows == select_hmm_by_accession(
                     st.database, st.self.sub_pfams[k].parent_acc, st.self.id)
           st1 == [st EXCEPT !.ops = Append(@, "select hmm")]
       IN  IF rows = {} THEN [st1 EXCEPT !.status = "IndexError"]
           ELSE save_found_subs(save_found_sub(st1, k, First(rows), 1), k + 1)

\* The found branch saving the members again, as the insert branch does.
save_found_resave(self, db, existing) ==
  save_insert_subs(
    save_insert_biosyn(
      [database |-> db, self |-> [self EXCEPT !.id = First(existing)],
       status |-> "ok", calls |-> <<>>, ops |-> <<"select hmm_db">>], 1), 1)

\* save, lines 39-70: a row of hmm_db matches the checksum pair.
save_found(self, db, existing) ==
  IF Cardinality(existing) # 1
  THEN [database |-> db, self |-> self, status |-> "AssertionError",
        calls |-> <<>>, ops |-> <<"select hmm_db">>]
  ELSE save_found_subs(
         save_found_biosyn(
           [database |-> db, self |-> [self EXCEPT !.id = First(existing)],
            status |-> "ok", calls |-> <<>>, ops |-> <<"select hmm_db">>],
           1), 1)

\* save never finding the group row.
save_always_insert(self, db) == save_insert(self, db)

save(self, db) ==
  LET existing == select_hmm_db(db, self.md5_biosyn_pfam, self.md5_sub_pfam)
  IN  IF existing # {} THEN save_found(self, db, existing)
      ELSE save_insert(self, db)

(***************************************************************************)
(* The groups a caller can build: what load_folder builds from parsed      *)
(* files, every HMM fresh from HMM.__init__.  sub_pfams is a dict, here    *)
(* the sequence of its (parent_acc, pfams) items in iteration order.       *)
(***************************************************************************)
PfamsOf(accessions) ==
  {HMM__init__([name |-> n, accession |-> a, model_length |-> l]).hmm :
     n \in Names, a \in accessions, l \in Lens}

\* The keys of sub_pfams in iteration order: distinct accessions.
ParentAccs ==
  {keys \in SeqsUpTo(Accs, MaxKeys) :
     \A i, j \in 1..Len(keys) : i # j => keys[i] # keys[j]}

SubPfamDicts ==
  UNION {{[k \in 1..Len(keys) |->
             [parent_acc |-> keys[k], pfams |-> pfams[k]]] :
            pfams \in [1..Len(keys) ->
                        SeqsUpTo(PfamsOf(SubAccs), MaxSubs)]} :
         keys \in ParentAccs}

Groups ==
  {HMMDatabase__init__([md5_biosyn_pfam |-> b, md5_sub_pfam |-> s,
                        biosyn_pfams |-> bp, sub_pfams |-> sp]) :
     b \in Md5Biosyn, s \in Md5Sub,
     bp \in SeqsUpTo(PfamsOf(BiosynAccs), MaxBio), sp \in SubPfamDicts}

(***************************************************************************)
(* HMMDatabase.HMM.from_file.  A line is what readlines() returns: its     *)
(* characters, the line break included.                                    *)
(***************************************************************************)
Whitespace == {" ", "\n", "\t"}

Digits == <<"0", "1", "2", "3", "4", "5", "6", "7", "8", "9">>

\* str.rstrip()
RECURSIVE rstrip(_)
rstrip(s) ==
  IF s # <<>> /\ s[Len(s)] \in Whitespace THEN rstrip(SubSeq(s, 1, Len(s) - 1))
  ELSE s

\* str.startswith(prefix)
startswith(s, prefix) ==
  Len(s) >= Len(prefix) /\ SubSeq(s, 1, Len(prefix)) = prefix

\* s.split(" ")[-1]: what follows the last space of s, all of s if it has none.
split_last(s) ==
  LET spaces == {i \in 1..Len(s) : s[i] = " "}
      from == IF spaces = {} THEN 1
              ELSE 1 + CHOOSE i \in spaces : \A j \in spaces : j <= i
  IN  SubSeq(s, from, Len(s))

\* int(s), for s without sign, blanks or underscores: a status and a value.
RECURSIVE decimal(_)
decimal(s) ==
  IF s = <<>> THEN 0
  ELSE 10 * decimal(SubSeq(s, 1, Len(s) - 1))
       + (CHOOSE d \in 0..9 : Digits[d + 1] = s[Len(s)])

int(s) ==
  IF s # <<>> /\ \A i \in 1..Len(s) : \E d \in 1..10 : Digits[d] = s[i]
  THEN [status |-> "ok", value |-> decimal(s)]
  ELSE [status |-> "ValueError"]

\* properties = {} and properties[key] = value
EmptyDict == [key \in {} |-> None]

DictSet(properties, key, value) ==
  [k \in DOMAIN properties \cup {key} |->
     IF k = key THEN value ELSE properties[k]]

\* The loop turn keeping the accumulated properties at a terminator.
from_file_line_keep(st, readline) ==
  LET line == rstrip(readline)
      leng == int(rstrip(split_last(line)))
      made == HMM__init__(st.properties)
  IN  IF startswith(line, <<"N", "A", "M", "E">>)
      THEN [st EXCEPT !.properties = DictSet(@, "name", split_last(line))]
      ELSE IF startswith(line, <<"A", "C", "C">>)
      THEN [st EXCEPT !.properties = DictSet(@, "accession", split_last(line))]
      ELSE IF startswith(line, <<"L", "E", "N", "G">>)
      THEN IF leng.status # "ok" THEN [st EXCEPT !.status = leng.status]
           ELSE [st EXCEPT !.properties =
                             DictSet(@, "model_length", leng.value)]
      ELSE IF line = <<"/", "/">>
      THEN IF made.status # "ok" THEN [st EXCEPT !.status = made.status]
           ELSE [st EXCEPT !.results = Append(@, made.hmm)]
      ELSE st

\* from_file, lines 198-208: one turn of the loop over the lines.
from_file_line(st, readline) ==
  LET line == rstrip(readline)
      leng == int(rstrip(split_last(line)))
      made == HMM__init__(st.properties)
  IN  IF startswith(line, <<"N", "A", "M", "E">>)
      THEN [st EXCEPT !.properties = DictSet(@, "name", split_last(line))]
      ELSE IF startswith(line, <<"A", "C", "C">>)
      THEN [st EXCEPT !.properties = DictSet(@, "accession", split_last(line))]
      ELSE IF startswith(line, <<"L", "E", "N", "G">>)
      THEN IF leng.status # "ok" THEN [st EXCEPT !.status = leng.status]
           ELSE [st EXCEPT !.properties =
                             DictSet(@, "model_length", leng.value)]
      ELSE IF line = <<"/", "/">>
      THEN IF made.status # "ok" THEN [st EXCEPT !.status = made.status]
           ELSE [properties |-> EmptyDict,
                 results |-> Append(st.results, made.hmm),
                 status |-> "ok"]
      ELSE st

\* from_file, lines 197-208: the loop over the lines from position i on.
RECURSIVE from_file_lines(_, _, _)
from_file_lines(st, lines, i) ==
  IF st.status # "ok" \/ i > Len(lines) THEN st
  ELSE from_file_lines(from_file_line(st, lines[i]), lines, i + 1)

\* from_file returning without looking at the block the file ends in.
from_file_end_drop(st) == st

\* from_file, lines 209-210: the block the file ends in.
from_file_end(st) ==
  LET made == HMM__init__(st.properties)
  IN  IF st.status # "ok" \/ DOMAIN st.properties = {} THEN st
      ELSE IF made.status # "ok" THEN [st EXCEPT !.status = made.status]
      ELSE [st EXCEPT !.results = Append(@, made.hmm)]

\* from_file: the records returned, none when an exception leaves it.
from_file(lines) ==
  LET st == from_file_end(
              from_file_lines(
                [properties |-> EmptyDict, results |-> <<>>, status |-> "ok"],
                lines, 1))
  IN  [status |-> st.status,
       results |-> IF st.status = "ok" THEN st.results ELSE <<>>]

\* The lines of the files parsed.
NameA == <<"N", "A", "M", "E", " ", "a", "\n">>
NameB == <<"N", "A", "M", "E", " ", "b", "\n">>
AccP == <<"A", "C", "C", " ", "p", "\n">>
Leng12 == <<"L", "E", "N", "G", " ", "1", "2", "\n">>
LengX == <<"L", "E", "N", "G", " ", "x", "\n">>
Terminator == <<"/", "/", "\n">>
Other == <<"H", "M", "M", " ", "A", "\n">>

Lines == {NameA, NameB, AccP, Leng12, LengX, Terminator, Other}

NoCall == [branch |-> "none"]

Init ==
  /\ database = EmptyDatabase
  /\ prev = NoCall
  /\ last = NoCall
  /\ nsaves = 0
  /\ hmm_file = <<>>
  /\ parsed = [status |-> "idle"]

\* One call of save on a freshly built group: last records the call (the
\* group as submitted, the store before it, the group and the status after
\* it, the __save__ calls and the gateway calls it made), prev the call
\* before it.
Save ==
  /\ nsaves < MaxSaves
  /\ \E group \in Groups : \E r \in {save(group, database)} :
       /\ database' = r.database
       /\ prev' = last
       /\ last' = [branch |-> IF select_hmm_db(database, group.md5_biosyn_pfam,
                                                group.md5_sub_pfam) # {}
                              THEN "found" ELSE "insert",
                   group |-> group, before |-> database, self |-> r.self,
                   status |-> r.status, calls |-> r.calls, ops |-> r.ops]
       /\ nsaves' = nsaves + 1
       /\ UNCHANGED <<hmm_file, parsed>>

Next == Save

Spec == Init /\ [][Next]_vars

\* Parsing one file of at most MaxLines lines.
InitParse ==
  /\ database = EmptyDatabase
  /\ prev = NoCall
  /\ last = NoCall
  /\ nsaves = 0
  /\ \E n \in 0..MaxLines : hmm_file \in [1..n -> Lines]
  /\ parsed = [status |-> "idle"]

FromFile ==
  /\ parsed.status = "idle"
  /\ parsed' = from_file(hmm_file)
  /\ UNCHANGED <<database, prev, last, nsaves, hmm_file>>

NextParse == FromFile

SpecParse == InitParse /\ [][NextParse]_vars

(***************************************************************************)
(* Properties of save and __save__, checked under Spec.                    *)
(***************************************************************************)
Called(call) == call.branch # "none"

Succeeded(call) == Called(call) /\ call.status = "ok"

\* The ids a call of save left in the members of its group.
MemberIds(group) ==
  [biosyn_pfams |-> [i \in 1..Len(group.biosyn_pfams) |->
                       group.biosyn_pfams[i].id],
   sub_pfams |-> [k \in 1..Len(group.sub_pfams) |->
                    [j \in 1..Len(group.sub_pfams[k].pfams) |->
                       group.sub_pfams[k].pfams[j].id]]]

\* The accessions of the biosynthetic profiles of a group.
BiosynAccessions(group) ==
  {group.biosyn_pfams[i].accession : i \in 1..Len(group.biosyn_pfams)}

\* C1: when save has succeeded and is called again with an identical group,
\* the second call succeeds, gives the group and every member the id the
\* first call gave them, and leaves the store as it found it.
C1_IdempotentSave ==
  (Succeeded(prev) /\ Called(last) /\ last.group = prev.group)
    => /\ last.status = "ok"
       /\ last.self.id = prev.self.id
       /\ MemberIds(last.self) = MemberIds(prev.self)
       /\ database = last.before

\* A __save__ call that meets a stored row of its (name, db_id) with another
\* model_length.
Conflicting(call) ==
  \E i \in 1..Len(call.before.hmm) :
    /\ call.before.hmm[i].name = call.pfam.name
    /\ call.before.hmm[i].db_id = call.pfam.db_id
    /\ call.before.hmm[i].model_length # call.pfam.model_length

\* C2: a __save__ call that meets a stored row of its (name, db_id) with a
\* different model_length raises the conflict exception, inserts no row,
\* leaves every stored row as it was and assigns the profile no id; the
\* exception leaves save.
C2_ConflictDetection ==
  Called(last) =>
    \A n \in 1..Len(last.calls) :
      Conflicting(last.calls[n]) =>
        /\ last.calls[n].status = "Exception"
        /\ last.calls[n].after = last.calls[n].before
        /\ last.calls[n].self.id = -1
        /\ n = Len(last.calls)
        /\ last.status = "Exception"
        /\ database = last.calls[n].before

C2_Witness ==
  /\ Called(last)
  /\ \E n \in 1..Len(last.calls) : Conflicting(last.calls[n])

\* The positions of the keys of sub_pfams that are the accession of no
\* biosynthetic profile of the group.
UndefinedParents(group) ==
  {k \in 1..Len(group.sub_pfams) :
     group.sub_pfams[k].parent_acc \notin BiosynAccessions(group)}

\* C3: in the insert branch, when a key of sub_pfams is the accession of no
\* biosynthetic profile of the group, save fails and no profile listed under
\* that key is inserted, into hmm or into subpfam.
C3_ReferentialCompleteness ==
  (Called(last) /\ last.branch = "insert")
    => \A k \in UndefinedParents(last.group) :
         /\ last.status # "ok"
         /\ \A n \in 1..Len(last.calls) :
              last.calls[n].at[1] = k
                => last.calls[n].after = last.calls[n].before

\* C4: after save has succeeded through the insert branch, every profile
\* listed under the key A has the parent_id of a biosynthetic profile of the
\* group whose accession is A, and every member has the db_id of the group.
C4_CascadingInsert ==
  (Succeeded(last) /\ last.branch = "insert")
    => /\ \A i \in 1..Len(last.self.biosyn_pfams) :
            last.self.biosyn_pfams[i].db_id = last.self.id
       /\ \A k \in 1..Len(last.self.sub_pfams) :
            \A j \in 1..Len(last.self.sub_pfams[k].pfams) :
              /\ last.self.sub_pfams[k].pfams[j].db_id = last.self.id
              /\ \E i \in 1..Len(last.self.biosyn_pfams) :
                   /\ last.self.biosyn_pfams[i].accession
                        = last.self.sub_pfams[k].parent_acc
                   /\ last.self.sub_pfams[k].pfams[j].parent_id
                        = last.self.biosyn_pfams[i].id

\* C5: the store holds at most one hmm_db row for each pair
\* (md5_biosyn_pfam, md5_sub_pfam).
C5_GroupUniqueness ==
  \A i, j \in 1..Len(database.hmm_db) :
    (/\ database.hmm_db[i].md5_biosyn_pfam = database.hmm_db[j].md5_biosyn_pfam
     /\ database.hmm_db[i].md5_sub_pfam = database.hmm_db[j].md5_sub_pfam)
      => i = j

C5_Witness ==
  /\ Called(prev)
  /\ Called(last)
  /\ last.group.md5_biosyn_pfam = prev.group.md5_biosyn_pfam
  /\ last.group.md5_sub_pfam = prev.group.md5_sub_pfam
  /\ last.group # prev.group
  /\ Len(database.hmm_db) = 1

C7_FoundBranchNoInsert ==
  (Called(last) /\ last.branch = "found") => database = last.before

C7_Witness ==
  /\ Called(last)
  /\ last.branch = "found"
  /\ last.status = "IndexError"
  /\ Len(last.group.biosyn_pfams) > 0

(***************************************************************************)
(* Properties of from_file, checked under SpecParse.  The blocks of        *)
(* hmm_file are told apart by its lines, not by the parser: a block ends   *)
(* at a terminator line or, unterminated, at the end of the file.          *)
(***************************************************************************)
Parsed == parsed.status # "idle"

Terminators == {t \in 1..Len(hmm_file) : hmm_file[t] = Terminator}

EndOfFile == Len(hmm_file) + 1

\* The lines of the block that ends at position t.
BlockLines(t) ==
  {i \in 1..(t - 1) : \A u \in Terminators : ~(i <= u /\ u < t)}

\* The position of the n-th terminator.
TerminatorAt(n) ==
  CHOOSE t \in Terminators : Cardinality({u \in Terminators : u <= t}) = n

NameLines(t) == {i \in BlockLines(t) : hmm_file[i] \in {NameA, NameB}}

HasName(t) == NameLines(t) # {}

HasAcc(t) == \E i \in BlockLines(t) : hmm_file[i] = AccP

HasLeng(t) == \E i \in BlockLines(t) : hmm_file[i] = Leng12

HasField(t) == HasName(t) \/ HasAcc(t) \/ HasLeng(t)

Complete(t) == HasName(t) /\ HasLeng(t)

NumericLengths == \A i \in 1..Len(hmm_file) : hmm_file[i] # LengX

\* The name the last NAME line of the block sets.
BlockName(t) ==
  IF hmm_file[CHOOSE i \in NameLines(t) : \A j \in NameLines(t) : j <= i]
       = NameA
  THEN <<"a">> ELSE <<"b">>

\* The record carries the values the lines of the block set, and no other.
RecordOf(hmm, t) ==
  /\ HasName(t)
  /\ hmm.name = BlockName(t)
  /\ hmm.accession = IF HasAcc(t) THEN <<"p">> ELSE None
  /\ HasLeng(t)
  /\ hmm.model_length = 12
  /\ hmm.id = -1
  /\ hmm.parent_id = -1
  /\ hmm.db_id = -1

\* The file is a sequence of terminated blocks.
AllTerminated ==
  hmm_file # <<>> => hmm_file[Len(hmm_file)] = Terminator

\* One record for each terminated block, in file order.
RecordsOfBlocks ==
  /\ parsed.status = "ok"
  /\ Len(parsed.results) >= Cardinality(Terminators)
  /\ \A n \in 1..Cardinality(Terminators) :
       RecordOf(parsed.results[n], TerminatorAt(n))

\* C8 as stated: a file of k terminated blocks parses to k records in file
\* order, each carrying only the values set in its own block (stated here
\* of the files each block of which sets a field).
C8_SegmentationAsStated ==
  (Parsed /\ AllTerminated /\ \A t \in Terminators : HasField(t))
    => /\ RecordsOfBlocks
       /\ Len(parsed.results) = Cardinality(Terminators)

\* C8, amended: a file of k terminated blocks, each with a NAME line and a
\* LENG line and no LENG line whose value is not a number, parses to k
\* records in file order, each carrying only the values set in its own
\* block.
C8_Segmentation ==
  (/\ Parsed
   /\ AllTerminated
   /\ NumericLengths
   /\ \A t \in Terminators : Complete(t))
    => /\ RecordsOfBlocks
       /\ Len(parsed.results) = Cardinality(Terminators)

\* Two blocks, the first with an accession and the second without.
C8_Witness ==
  /\ parsed.status = "ok"
  /\ AllTerminated
  /\ Cardinality(Terminators) = 2
  /\ Len(parsed.results) = 2
  /\ parsed.results[1].accession = <<"p">>
  /\ parsed.results[2].accession = None
  /\ parsed.results[1].name # parsed.results[2].name

\* C9 as stated: a file that ends in an unterminated block with at least one
\* of NAME, ACC, LENG set parses to one more record, that of the block.
C9_TrailingAsStated ==
  (Parsed /\ HasField(EndOfFile))
    => /\ RecordsOfBlocks
       /\ Len(parsed.results) = Cardinality(Terminators) + 1
       /\ parsed.results[Len(parsed.results)].name
            = (IF HasName(EndOfFile) THEN BlockName(EndOfFile) ELSE None)
       /\ parsed.results[Len(parsed.results)].accession
            = (IF HasAcc(EndOfFile) THEN <<"p">> ELSE None)

\* C9, amended: when the file ends in an unterminated block with at least
\* one of NAME, ACC, LENG set (the blocks before it having NAME and LENG and
\* every LENG value being a number), the block is returned as one more,
\* final record if it has both NAME and LENG; otherwise from_file raises
\* KeyError and returns no record.
C9_Trailing ==
  (/\ Parsed
   /\ HasField(EndOfFile)
   /\ NumericLengths
   /\ \A t \in Terminators : Complete(t))
    => IF Complete(EndOfFile)
       THEN /\ RecordsOfBlocks
            /\ Len(parsed.results) = Cardinality(Terminators) + 1
            /\ RecordOf(parsed.results[Len(parsed.results)], EndOfFile)
       ELSE /\ parsed.status = "KeyError"
            /\ parsed.results = <<>>

\* A terminated block and then an unterminated one, both returned.
C9_Witness ==
  /\ parsed.status = "ok"
  /\ Complete(EndOfFile)
  /\ Cardinality(Terminators) = 1
  /\ Len(parsed.results) = 2
  /\ parsed.results[1].name # parsed.results[2].name

\* The blocks without a NAME line: the terminated ones, and the block the
\* file ends in when a field is set in it.
Nameless ==
  {t \in Terminators : ~HasName(t)}
    \cup {t \in {EndOfFile} : HasField(t) /\ ~HasName(t)}

\* C10: when a block without a NAME line reaches its terminator, or the end
\* of the file with a field set, from_file raises an exception (KeyError,
\* unless a LENG value is not a number) and returns no record; no record
\* returned is without a name.
C10_MissingName ==
  /\ (Parsed /\ Nameless # {})
       => /\ parsed.status \in {"KeyError", "ValueError"}
          /\ NumericLengths => parsed.status = "KeyError"
          /\ parsed.results = <<>>
  /\ parsed.status = "ok"
       => \A n \in 1..Len(parsed.results) : parsed.results[n].name # None

\* A block with NAME and LENG, then a terminated block without a NAME line.
C10_Witness ==
  /\ Parsed
  /\ Cardinality(Terminators) >= 2
  /\ Complete(TerminatorAt(1))
  /\ HasLeng(TerminatorAt(2))
  /\ ~HasName(TerminatorAt(2))
  /\ NumericLengths
  /\ parsed.status = "KeyError"

(***************************************************************************)
(* Claims about the found branch, failures and the store as a whole.       *)
(***************************************************************************)
\* The id of the group row matching the checksum pair of a call of save.
GroupId(call) ==
  First(select_hmm_db(call.before, call.group.md5_biosyn_pfam,
                      call.group.md5_sub_pfam))

\* (a) a biosynthetic profile with no row of its (name, group id).
UnresolvedBiosyn(call) ==
  \E i \in 1..Len(call.group.biosyn_pfams) :
    select_hmm_by_name(call.before, call.group.biosyn_pfams[i].name,
                       GroupId(call)) = {}

\* (b) a key of sub_pfams with no row of its (accession, group id).
UnresolvedKey(call) ==
  \E k \in 1..Len(call.group.sub_pfams) :
    select_hmm_by_accession(call.before, call.group.sub_pfams[k].parent_acc,
                            GroupId(call)) = {}

\* (c) a sub-profile with no row in the join of hmm and subpfam for its
\* (parent id, name, group id), the parent id being that of its key's row.
UnresolvedSub(call) ==
  \E k \in 1..Len(call.group.sub_pfams) :
    LET rows == select_hmm_by_accession(
                  call.before, call.group.sub_pfams[k].parent_acc,
                  GroupId(call))
    IN  /\ rows # {}
        /\ \E j \in 1..Len(call.group.sub_pfams[k].pfams) :
             select_hmm_subpfam(call.before, First(rows),
                                call.group.sub_pfams[k].pfams[j].name,
                                GroupId(call)) = {}

\* The gateway calls of a call of save that insert a row.
Inserts(call) == {n \in 1..Len(call.ops) : call.ops[n] \in
                    {"insert hmm_db", "insert hmm", "insert subpfam"}}

\* C11: when save finds the group row of the checksum pair and a member of
\* the group cannot be resolved in the store (a biosynthetic profile by name,
\* a key of sub_pfams by accession, a sub-profile in the join of hmm and
\* subpfam), save fails with IndexError, calls __save__ for no member,
\* inserts no row and leaves the store as it found it.
C11_FoundUnresolvable ==
  (Called(last) /\ last.branch = "found"
     /\ (UnresolvedBiosyn(last) \/ UnresolvedKey(last) \/ UnresolvedSub(last)))
    => /\ last.status = "IndexError"
       /\ last.calls = <<>>
       /\ Inserts(last) = {}
       /\ database = last.before

\* A call in the found branch whose biosynthetic profiles and keys all
\* resolve, and which fails on a sub-profile missing from the join.
C11_Witness ==
  /\ Called(last) /\ last.branch = "found"
  /\ ~UnresolvedBiosyn(last) /\ ~UnresolvedKey(last) /\ UnresolvedSub(last)
  /\ last.status = "IndexError"
  /\ database = last.before

\* s is an initial part of t.
IsPrefix(s, t) ==
  Len(s) <= Len(t) /\ \A n \in 1..Len(s) : s[n] = t[n]

\* The store db holds every row of the store old, at the same id.
Keeps(old, db) ==
  /\ IsPrefix(old.hmm_db, db.hmm_db)
  /\ IsPrefix(old.hmm, db.hmm)
  /\ IsPrefix(old.subpfam, db.subpfam)

\* The number of gateway calls of the given name made by a call of save.
Count(call, op) == Cardinality({n \in 1..Len(call.ops) : call.ops[n] = op})

\* C12: when save fails in the insert branch (a conflict raised by __save__
\* or a key of sub_pfams that resolves to no row), the group row it inserted
\* and every hmm and subpfam row inserted by its __save__ calls are in the
\* store after the call, one row for each insert it issued, and the lookup
\* that failed is the last gateway call it made.
C12_NoRollback ==
  (Called(last) /\ last.branch = "insert" /\ last.status # "ok")
    => /\ last.status \in {"Exception", "IndexError"}
       /\ database.hmm_db
            = Append(last.before.hmm_db,
                     [md5_biosyn_pfam |-> last.group.md5_biosyn_pfam,
                      md5_sub_pfam |-> last.group.md5_sub_pfam])
       /\ Keeps(last.before, database)
       /\ \A n \in 1..Len(last.calls) : Keeps(last.calls[n].after, database)
       /\ Len(database.hmm) = Len(last.before.hmm) + Count(last, "insert hmm")
       /\ Len(database.subpfam)
            = Len(last.before.subpfam) + Count(last, "insert subpfam")
       /\ last.ops[Len(last.ops)] = "select hmm"

\* A call that failed in the insert branch after it had inserted the group
\* row, a profile row and a relation row.
C12_Witness ==
  /\ Called(last) /\ last.branch = "insert"
  /\ last.status \in {"Exception", "IndexError"}
  /\ Count(last, "insert hmm") > 0
  /\ Count(last, "insert subpfam") > 0
  /\ Len(database.subpfam) > Len(last.before.subpfam)

\* The __save__ calls of a call of save that found a stored row of equal
\* model_length and adopted its id without inserting.
Adopted(c) ==
  /\ c.status = "ok"
  /\ c.after = c.before
  /\ c.self.id \in select_hmm_by_name(c.before, c.pfam.name, c.pfam.db_id)
  /\ c.before.hmm[c.self.id].model_length = c.pfam.model_length

\* C13: when save has failed partway through the insert branch and is called
\* again with the same group, the second call takes the insert branch again
\* and its __save__ calls adopt the ids of the rows the failed call
\* inserted, inserting none of them again.
C13_RetryAfterFailure ==
  (Called(prev) /\ prev.branch = "insert" /\ prev.status # "ok"
     /\ Called(last) /\ last.group = prev.group)
    => /\ last.branch = "insert"
       /\ \A n \in 1..Len(prev.calls) :
            prev.calls[n].status = "ok"
              => /\ n <= Len(last.calls)
                 /\ Adopted(last.calls[n])
                 /\ last.calls[n].self.id = prev.calls[n].self.id

\* The store holds a subpfam row linking hmm_id to parent_hmm_id.
Linked(db, hmm_id, parent_hmm_id) ==
  \E n \in 1..Len(db.subpfam) :
    /\ db.subpfam[n].hmm_id = hmm_id
    /\ db.subpfam[n].parent_hmm_id = parent_hmm_id

\* C14: after save has succeeded through the insert branch, the store holds
\* for every sub-profile of the group a subpfam row linking the id the
\* sub-profile was given to its parent_id, whatever the names of the profiles
\* saved before it in the same group.
C14_RelationPersisted ==
  (Succeeded(last) /\ last.branch = "insert")
    => \A k \in 1..Len(last.self.sub_pfams) :
         \A j \in 1..Len(last.self.sub_pfams[k].pfams) :
           /\ last.self.sub_pfams[k].pfams[j].parent_id >= 0
           /\ Linked(database, last.self.sub_pfams[k].pfams[j].id,
                     last.self.sub_pfams[k].pfams[j].parent_id)

\* The ids the biosynthetic profiles of a group carry.
BiosynIds(group) ==
  {group.biosyn_pfams[i].id : i \in 1..Len(group.biosyn_pfams)}

\* The rows of hmm that a subpfam row of the store names as a sub-profile.
SubProfileRows(db) == {db.subpfam[n].hmm_id : n \in 1..Len(db.subpfam)}

\* C15: in the insert branch, the parent_id given to the profiles listed
\* under a key of sub_pfams is the id of a biosynthetic profile of the group,
\* and no subpfam row of the store names as parent a row that a subpfam row
\* names as sub-profile.
C15_TwoLevelHierarchy ==
  (Called(last) /\ last.branch = "insert")
    => /\ \A n \in 1..Len(last.calls) :
            last.calls[n].at[1] >= 1
              => last.calls[n].pfam.parent_id \in BiosynIds(last.self)
       /\ \A n \in 1..Len(database.subpfam) :
            database.subpfam[n].parent_hmm_id \notin SubProfileRows(database)

\* C16: after save has succeeded, through the found branch or the insert
\* branch, the group has an id, every biosynthetic profile and sub-profile
\* has an id other than -1 and the db_id of the group, and every sub-profile
\* has a parent_id other than -1.
C16_IdentifiersFilled ==
  Succeeded(last)
    => /\ last.self.id # -1
       /\ \A i \in 1..Len(last.self.biosyn_pfams) :
            /\ last.self.biosyn_pfams[i].id # -1
            /\ last.self.biosyn_pfams[i].db_id = last.self.id
       /\ \A k \in 1..Len(last.self.sub_pfams) :
            \A j \in 1..Len(last.self.sub_pfams[k].pfams) :
              /\ last.self.sub_pfams[k].pfams[j].id # -1
              /\ last.self.sub_pfams[k].pfams[j].db_id = last.self.id
              /\ last.self.sub_pfams[k].pfams[j].parent_id # -1

\* The members of a group: <<0, i>> the i-th biosynthetic profile, <<k, j>>
\* the j-th profile listed under the k-th key of sub_pfams.
Members(group) ==
  {<<0, i>> : i \in 1..Len(group.biosyn_pfams)}
    \cup UNION {{<<k, j>> : j \in 1..Len(group.sub_pfams[k].pfams)} :
                k \in 1..Len(group.sub_pfams)}

Member(group, at) ==
  IF at[1] = 0 THEN group.biosyn_pfams[at[2]]
  ELSE group.sub_pfams[at[1]].pfams[at[2]]

\* The rows of the group found by a call of save that have the name of the
\* member at `at` and another model_length or accession.
Differing(call, at) ==
  {r \in 1..Len(call.before.hmm) :
     /\ call.before.hmm[r].db_id = GroupId(call)
     /\ call.before.hmm[r].name = Member(call.group, at).name
     /\ \/ call.before.hmm[r].model_length
             # Member(call.group, at).model_length
        \/ call.before.hmm[r].accession # Member(call.group, at).accession}

\* C17 as stated: in the found branch, a member that has the name of a
\* stored profile of the group and another model_length or accession is
\* given the id of that row, and save raises no conflict and leaves the
\* store unchanged.
C17_PermissiveAsStated ==
  (Called(last) /\ last.branch = "found")
    => \A at \in Members(last.group) : \A r \in Differing(last, at) :
         /\ last.status # "Exception"
         /\ Member(last.self, at).id = r
         /\ database = last.before

\* C17: in the found branch, when a member has the name of a stored profile
\* of the group and another model_length or accession, save raises no
\* conflict (it succeeds or fails with IndexError on a member it cannot
\* resolve), calls __save__ for no member and leaves the store unchanged;
\* when it succeeds, that member carries the id of the stored row.
C17_PermissiveFound ==
  (Called(last) /\ last.branch = "found")
    => \A at \in Members(last.group) : \A r \in Differing(last, at) :
         /\ last.status \in {"ok", "IndexError"}
         /\ last.calls = <<>>
         /\ database = last.before
         /\ last.status = "ok" => Member(last.self, at).id = r

\* A successful call in the found branch that gave a member the id of a
\* stored row of another model_length.
C17_Witness ==
  /\ Succeeded(last) /\ last.branch = "found"
  /\ \E at \in Members(last.group) : \E r \in Differing(last, at) :
       /\ last.before.hmm[r].model_length
            # Member(last.group, at).model_length
       /\ Member(last.self, at).id = r
  /\ database = last.before

\* C18: no call of save and no call of __save__ updates or deletes a row:
\* every row of hmm_db, hmm and subpfam in the store before the call is in
\* the store after it, at the same id and with the same field values,
\* whether the call succeeds or fails, and the only gateway calls made are
\* selects and inserts.
C18_AppendOnly ==
  Called(last)
    => /\ Keeps(last.before, database)
       /\ \A n \in 1..Len(last.calls) :
            /\ Keeps(last.before, last.calls[n].before)
            /\ Keeps(last.calls[n].before, last.calls[n].after)
            /\ Keeps(last.calls[n].after, database)
       /\ \A n \in 1..Len(last.ops) :
            last.ops[n] \in {"select hmm_db", "select hmm",
                             "select hmm,subpfam", "insert hmm_db",
                             "insert hmm", "insert subpfam"}

\* A call of save on a store that holds rows of every table, which inserts
\* a profile row and then meets a stored row of another model_length.
C18_Witness ==
  /\ Called(last)
  /\ last.before.hmm_db # <<>>
  /\ last.before.hmm # <<>>
  /\ last.before.subpfam # <<>>
  /\ Len(database.hmm) > Len(last.before.hmm)
  /\ \E n \in 1..Len(last.calls) : Conflicting(last.calls[n])
  /\ Keeps(last.before, database)

\* Every hmm row of the store db names an hmm_db row, and every subpfam row
\* names two hmm rows of one group.
RefIntegrity(db) ==
  /\ \A r \in 1..Len(db.hmm) : db.hmm[r].db_id \in 1..Len(db.hmm_db)
  /\ \A n \in 1..Len(db.subpfam) :
       /\ db.subpfam[n].hmm_id \in 1..Len(db.hmm)
       /\ db.subpfam[n].parent_hmm_id \in 1..Len(db.hmm)
       /\ db.hmm[db.subpfam[n].hmm_id].db_id
            = db.hmm[db.subpfam[n].parent_hmm_id].db_id

\* C19: after any sequence of calls of save, successful or failed, every hmm
\* row names an existing hmm_db row and every subpfam row names two existing
\* hmm rows of the same group; the same holds of the store before and after
\* each __save__ call, so a group row is in the store before its profile
\* rows and a parent row before the relation rows that name it.
C19_ReferentialIntegrity ==
  /\ RefIntegrity(database)
  /\ Called(last)
       => \A n \in 1..Len(last.calls) :
            /\ RefIntegrity(last.calls[n].before)
            /\ RefIntegrity(last.calls[n].after)
            /\ last.calls[n].pfam.db_id \in 1..Len(last.calls[n].before.hmm_db)
            /\ last.calls[n].pfam.parent_id > -1
                 => last.calls[n].pfam.parent_id
                      \in 1..Len(last.calls[n].before.hmm)

\* A store holding two groups, each with a sub-profile linked to its parent,
\* after a call of save that failed in the insert branch.
C19_Witness ==
  /\ Called(last) /\ last.branch = "insert" /\ last.status # "ok"
  /\ Len(database.hmm_db) = 2
  /\ \A g \in 1..2 : \E n \in 1..Len(database.subpfam) :
       database.hmm[database.subpfam[n].hmm_id].db_id = g
  /\ RefIntegrity(database)

\* The stored rows a __save__ call met: those of its (name, db_id).
Met(c) == select_hmm_by_name(c.before, c.pfam.name, c.pfam.db_id)

\* C20: a __save__ call made by save meets a stored row of its (name, db_id)
\* only when an earlier __save__ call of the same save was for a member of
\* the same name, and the row it meets was inserted by that save; it raises
\* the conflict exception only when such an earlier member has another
\* model_length.  No row stored by an earlier save is met.
C20_ConflictReachability ==
  Called(last)
    => \A n \in 1..Len(last.calls) :
         /\ Met(last.calls[n]) # {}
              => /\ \E m \in 1..(n - 1) :
                      Member(last.group, last.calls[m].at).name
                        = Member(last.group, last.calls[n].at).name
                 /\ \A r \in Met(last.calls[n]) : r > Len(last.before.hmm)
         /\ last.calls[n].status = "Exception"
              => \E m \in 1..(n - 1) :
                   /\ Member(last.group, last.calls[m].at).name
                        = Member(last.group, last.calls[n].at).name
                   /\ Member(last.group, last.calls[m].at).model_length
                        # Member(last.group, last.calls[n].at).model_length

\* A save whose __save__ call raised the conflict exception on a row the
\* same save inserted, while the store held, from an earlier save, a row of
\* the same name and of the model_length of the failing profile.
C20_Witness ==
  /\ Called(last)
  /\ \E n \in 1..Len(last.calls) :
       /\ last.calls[n].status = "Exception"
       /\ \A r \in Met(last.calls[n]) : r > Len(last.before.hmm)
       /\ \E r \in 1..Len(last.before.hmm) :
            /\ last.before.hmm[r].name = last.calls[n].pfam.name
            /\ last.before.hmm[r].model_length
                 = last.calls[n].pfam.model_length

====
